---- MODULE Spec2Model ----
(***************************************************************************)
(* teuthology/contextutil.py: the context-manager aggregator nested() and  *)
(* the bounded retry gate safe_while.                                      *)
(*                                                                         *)
(* Spec      runs one use of  `with nested(f1, ..., fN) as vars: block`.   *)
(* GateSpec  constructs one safe_while and invokes it repeatedly.          *)
(***************************************************************************)
EXTENDS Integers, Sequences, FiniteSets, TLC

(* ---------------------------- bounds ---------------------------------- *)
\* largest number of factories handed to nested()
MaxManagers == 3
\* largest tries budget of a gate
MaxTries == 3
\* largest |sleep| of a gate
MaxSleep == 1
\* largest |increment| of a gate
MaxIncrement == 1
\* calls of the gate made beyond its budget
ExtraCalls == 2

VARIABLES
    \* ---- nested() ----
    managers,       \* number of factories passed (*managers)
    mgr_idx,        \* position of the for loop over managers (next one to take)
    exits,          \* list of the exit methods collected (resource indices)
    yield_vars,     \* the list `vars` of entered values
    exc,            \* the recorded exc_info triple, NoExc for (None, None, None)
    in_flight,      \* an exception travelling through the finally clause uncaught
    thrown,         \* what the with statement handed to the generator at the yield
    pc,             \* position in the generator / with statement
    trace,          \* every call made, in order
    result,         \* what the caller of the with statement ends up with
    \* ---- safe_while ----
    sleep,          \* self.sleep
    increment,      \* self.increment
    tries,          \* self.tries
    counter,        \* self.counter
    sleep_current,  \* self.sleep_current
    action,         \* self.action
    sleeper,        \* self.sleeper: "time.sleep" or an injected "stub"
    calls,          \* one record per __call__ made so far
    scope,          \* whether the gate's with block is entered
    scope_as,       \* what __enter__ returned to the with statement
    scope_result    \* how the last with statement on the gate ended

nestedVars == <<managers, mgr_idx, exits, yield_vars, exc, in_flight, thrown, pc,
                trace, result>>
gateVars == <<sleep, increment, tries, counter, sleep_current, action, sleeper,
              calls, scope, scope_as, scope_result>>
vars == <<nestedVars, gateVars>>

(* ------------------------- exceptions --------------------------------- *)
\* (None, None, None)
NoExc == [src |-> "none", idx |-> 0, kind |-> "none"]

\* An exception object, identified by where it was raised.  kind tells whether
\* it derives from Exception or only from BaseException (KeyboardInterrupt,
\* SystemExit), which `except Exception` does not catch.
Err(src, idx, kind) == [src |-> src, idx |-> idx, kind |-> kind]

Kinds == {"Exception", "BaseException"}

\* contextlib's RuntimeError("generator didn't yield")
DidntYield == Err("contextlib", 0, "Exception")

\* One entry of the call trace: the call op of resource idx, the exc_info it
\* was given (exits only), how it came out ("ret": returned, for an exit a
\* false value; "true": an exit returned a true value; "raise") and the
\* exception it raised.
Ev(op, idx, arg, out, err) == [op |-> op, idx |-> idx, arg |-> arg, out |-> out, err |-> err]

(* ------------------------- nested() ----------------------------------- *)
\* Mutant: the handler catches everything, BaseException included.
CaughtCatchAll(e) == TRUE

\* `except Exception:` (lines 30 and 39)
Caught(e) == e.kind = "Exception"

\* Mutant: exits are taken from the front of the list.
PopFirst(s) == 1

\* exits.pop(): the position removed from the list
PopIndex(s) == Len(s)

\* Mutant: the popped element stays in the list.
AfterPopKeep(s) == s

\* the list after exits.pop()
AfterPop(s) == [j \in 1..(Len(s) - 1) |-> IF j < PopIndex(s) THEN s[j] ELSE s[j + 1]]

\* Mutant: any return of an exit clears the recorded failure.
ExcAfterReturnClear(cur, ret) == NoExc

\* Mutant: a true return does not clear the recorded failure.
ExcAfterReturnKeep(cur, ret) == cur

\* lines 37-38: if exit(*exc): exc = (None, None, None)
ExcAfterReturn(cur, ret) == IF ret THEN NoExc ELSE cur

\* Mutant: an exit's exception does not replace the recorded failure.
ExcAfterRaiseKeep(cur, e) == IF cur = NoExc THEN e ELSE cur

\* lines 39-40: except Exception: exc = sys.exc_info()
ExcAfterRaise(cur, e) == e

\* Mutant: the recorded failure is not re-raised.
GenOutcomeNoRaise(rec, fly) == fly

\* What leaves the generator once the finally clause is through (lines
\* 41-45): the recorded failure if there is one, else the exception still in
\* flight, else nothing (the generator returns: StopIteration).
GenOutcome(rec, fly) == IF rec # NoExc THEN rec ELSE fly

\* Mutant: a generator that ends without yielding counts as a normal return.
WithOutcomeNoYieldCheck(phase, gen, thr) ==
    IF gen # NoExc THEN [kind |-> "raised", err |-> gen]
    ELSE [kind |-> "returned", err |-> NoExc]

\* contextlib.contextmanager around the generator (line 9), and the with
\* statement using it.  phase "enter": __enter__ ran gen.next() and the
\* generator ended before its yield; an exception goes to the caller, a plain
\* return is RuntimeError("generator didn't yield").  phase "exit": __exit__
\* ran gen.next() / gen.throw(thr); an exception of the generator goes to
\* the caller (when it is thr itself, __exit__ returns false and the with
\* statement re-raises thr), a plain return ends the with statement normally.
WithOutcome(phase, gen, thr) ==
    IF gen # NoExc THEN [kind |-> "raised", err |-> gen]
    ELSE IF phase = "enter" THEN [kind |-> "raised", err |-> DidntYield]
    ELSE [kind |-> "returned", err |-> NoExc]

Running == [kind |-> "running", err |-> NoExc]

\* lines 19-21
NestedInit(n) ==
    /\ managers = n
    /\ mgr_idx = 1
    /\ exits = << >>
    /\ yield_vars = << >>
    /\ exc = NoExc
    /\ in_flight = NoExc
    /\ thrown = NoExc
    /\ pc = "entering"
    /\ trace = << >>
    /\ result = Running

\* An exception e leaves the try body (lines 22-29) after the calls evs:
\* lines 30-32 when the handler catches it, else it stays in flight; the
\* finally clause follows either way.
RaisedInTry(evs, e) ==
    /\ IF Caught(e)
       THEN /\ trace' = trace \o evs \o <<Ev("log", 0, e, "ret", NoExc)>>
            /\ exc' = e
            /\ in_flight' = NoExc
       ELSE /\ trace' = trace \o evs
            /\ exc' = exc
            /\ in_flight' = e
    /\ pc' = "exiting"

\* lines 23-24: the factory itself raises
FactoryRaises ==
    /\ UNCHANGED gateVars
    /\ pc = "entering"
    /\ mgr_idx <= managers
    /\ \E k \in Kinds :
          RaisedInTry(<<Ev("factory", mgr_idx, NoExc, "raise", Err("factory", mgr_idx, k))>>,
                      Err("factory", mgr_idx, k))
    /\ UNCHANGED <<managers, mgr_idx, exits, yield_vars, thrown, result>>

\* lines 23-27: the factory returns a manager whose __enter__ raises
EnterRaises ==
    /\ UNCHANGED gateVars
    /\ pc = "entering"
    /\ mgr_idx <= managers
    /\ \E k \in Kinds :
          RaisedInTry(<<Ev("factory", mgr_idx, NoExc, "ret", NoExc),
                        Ev("enter", mgr_idx, NoExc, "raise", Err("enter", mgr_idx, k))>>,
                      Err("enter", mgr_idx, k))
    /\ UNCHANGED <<managers, mgr_idx, exits, yield_vars, thrown, result>>

\* lines 23-28: one pass of the for loop that succeeds; resource k enters
\* the value k
EnterOk ==
    /\ UNCHANGED gateVars
    /\ pc = "entering"
    /\ mgr_idx <= managers
    /\ trace' = trace \o <<Ev("factory", mgr_idx, NoExc, "ret", NoExc),
                            Ev("enter", mgr_idx, NoExc, "ret", NoExc)>>
    /\ yield_vars' = Append(yield_vars, mgr_idx)
    /\ exits' = Append(exits, mgr_idx)
    /\ mgr_idx' = mgr_idx + 1
    /\ UNCHANGED <<managers, exc, in_flight, thrown, pc, result>>

\* line 29: yield vars; the with statement binds them and starts the block
Yield ==
    /\ UNCHANGED gateVars
    /\ pc = "entering"
    /\ mgr_idx > managers
    /\ trace' = Append(trace, Ev("yield", Len(yield_vars), NoExc, "ret", NoExc))
    /\ pc' = "block"
    /\ UNCHANGED <<managers, mgr_idx, exits, yield_vars, exc, in_flight, thrown, result>>

\* the caller's block completes; __exit__(None, None, None) resumes the
\* generator after the yield and the finally clause starts
BlockOk ==
    /\ UNCHANGED gateVars
    /\ pc = "block"
    /\ trace' = Append(trace, Ev("block", 0, NoExc, "ret", NoExc))
    /\ pc' = "exiting"
    /\ UNCHANGED <<managers, mgr_idx, exits, yield_vars, exc, in_flight, thrown, result>>

\* the caller's block raises; __exit__ throws it into the generator at the
\* yield, inside the try
BlockRaises ==
    /\ UNCHANGED gateVars
    /\ pc = "block"
    /\ \E k \in Kinds :
          /\ thrown' = Err("block", 0, k)
          /\ RaisedInTry(<<Ev("block", 0, NoExc, "raise", Err("block", 0, k))>>,
                         Err("block", 0, k))
    /\ UNCHANGED <<managers, mgr_idx, exits, yield_vars, result>>

\* lines 34-38: an exit is popped and called with the recorded failure, and
\* returns ret
ExitReturns ==
    /\ UNCHANGED gateVars
    /\ pc = "exiting"
    /\ exits # << >>
    /\ \E ret \in BOOLEAN :
          /\ trace' = Append(trace, Ev("exit", exits[PopIndex(exits)], exc,
                                       IF ret THEN "true" ELSE "ret", NoExc))
          /\ exc' = ExcAfterReturn(exc, ret)
    /\ exits' = AfterPop(exits)
    /\ UNCHANGED <<managers, mgr_idx, yield_vars, in_flight, thrown, pc, result>>

\* whether the generator got as far as its yield
Phase == IF \E j \in 1..Len(trace) : trace[j].op = "yield" THEN "exit" ELSE "enter"

\* lines 34-40: an exit is popped and called with the recorded failure, and
\* raises.  An Exception is recorded and the loop goes on; anything else
\* leaves the finally clause at once, replacing what was in flight, and the
\* remaining exits are not called.
ExitRaises ==
    /\ UNCHANGED gateVars
    /\ pc = "exiting"
    /\ exits # << >>
    /\ \E k \in Kinds :
        LET x == exits[PopIndex(exits)]
            e == Err("exit", x, k)
        IN  /\ trace' = Append(trace, Ev("exit", x, exc, "raise", e))
            /\ IF Caught(e)
               THEN /\ exc' = ExcAfterRaise(exc, e)
                    /\ UNCHANGED <<in_flight, pc, result>>
               ELSE /\ exc' = exc
                    /\ in_flight' = e
                    /\ pc' = "done"
                    /\ result' = WithOutcome(Phase, e, thrown)
    /\ exits' = AfterPop(exits)
    /\ UNCHANGED <<managers, mgr_idx, yield_vars, thrown>>

\* lines 41-45 and the return through contextlib to the caller
Finish ==
    /\ UNCHANGED gateVars
    /\ pc = "exiting"
    /\ exits = << >>
    /\ pc' = "done"
    /\ result' = WithOutcome(Phase, GenOutcome(exc, in_flight), thrown)
    /\ UNCHANGED <<managers, mgr_idx, exits, yield_vars, exc, in_flight, thrown, trace>>

(* ------------------------- safe_while --------------------------------- *)
\* Mutant: the first sleep time already has the increment added.
SleepCurrentInitAdvanced(s, d) == s + d

\* line 89: self.sleep_current = sleep
SleepCurrentInit(s, d) == s

\* the with statement on the gate has not ended yet
NoScopeResult == [given |-> "None", suppressed |-> FALSE, kind |-> "none", err |-> "None"]

\* lines 83-91
GateInit(s, d, t, a, sl) ==
    /\ sleep = s
    /\ increment = d
    /\ tries = t
    /\ counter = 0
    /\ sleep_current = SleepCurrentInit(s, d)
    /\ action = a
    /\ sleeper = sl
    /\ calls = << >>
    /\ scope = "out"
    /\ scope_as = "none"
    /\ scope_result = NoScopeResult

\* Mutant: the budget is exhausted one call early.
ExceededEarly(c, t) == c >= t

\* Mutant: only the call right after the budget is refused.
ExceededOnce(c, t) == c = t + 1

\* line 118: if self.counter > self.tries
Exceeded(c, t) == c > t

\* Mutant: one term of the series is left out.
SumCountShort(s, d, n) == IF n <= 0 THEN 0 ELSE (n - 1) * s + (d * (n - 1) * (n - 2)) \div 2

\* sum(itertools.islice(itertools.count(s, d), n)) for n >= 0 (lines 98-103)
RECURSIVE SumCount(_, _, _)
SumCount(s, d, n) == IF n <= 0 THEN 0 ELSE s + SumCount(s + d, d, n - 1)

\* itertools.islice rejects a negative stop with ValueError (line 99-102)
IsliceRaises(n) == n < 0

\* _make_error_msg (lines 93-114): the fields formatted into the message;
\* the action prefix only when self.action is set
MakeErrorMsg(s, d, t, a) ==
    [prefix |-> IF a # "None" THEN a ELSE "", tries |-> t, total |-> SumCount(s, d, t)]

NoMsg == [prefix |-> "", tries |-> 0, total |-> 0]

\* the default sleeper, time.sleep, rejects a negative duration with an
\* error of its own (line 91, 121); an injected stub takes any duration
SleeperRaises(sl, x) == sl = "time.sleep" /\ x < 0

\* Mutant: the sleep time is not advanced.
NextSleepSame(cur, d) == cur

\* Mutant: the increment is applied with the wrong sign.
NextSleepBack(cur, d) == cur - d

\* line 122: self.sleep_current += self.increment
NextSleep(cur, d) == cur + d

\* Mutant: the increment of the counter is left out.
NextCounterStuck(c) == c

\* line 117: self.counter += 1
NextCounter(c) == c + 1

\* Mutant: the gate sleeps before it checks the budget.
SleepsBeforeCheckAlways(c, t) == TRUE

\* whether __call__ reaches the sleeper (line 121) with counter = c
ReachesSleeper(c, t) == ~Exceeded(c, t)

\* The record of one __call__: how it ended, what the sleeper was called
\* with, and the message of a MaxWhileTries.
CallRec(res, args, msg, before, after) ==
    [result |-> res, sleeper_args |-> args, msg |-> msg, before |-> before, after |-> after]

\* The most calls a run makes on one gate.
CallLimit == MaxTries + ExtraCalls

\* __call__ (lines 116-122)
Call ==
    /\ UNCHANGED nestedVars
    /\ Len(calls) < CallLimit
    /\ counter' = NextCounter(counter)
    /\ LET c == NextCounter(counter)
           slept == IF ReachesSleeper(c, tries) THEN <<sleep_current>> ELSE << >>
       IN  IF Exceeded(c, tries)
           THEN /\ calls' = Append(calls,
                       IF IsliceRaises(tries)
                       THEN CallRec("ValueError", slept, NoMsg, sleep_current, sleep_current)
                       ELSE CallRec("MaxWhileTries", slept,
                                    MakeErrorMsg(sleep, increment, tries, action),
                                    sleep_current, sleep_current))
                /\ sleep_current' = sleep_current
           ELSE IF SleeperRaises(sleeper, sleep_current)
           THEN /\ calls' = Append(calls, CallRec("SleepError", slept, NoMsg,
                                                  sleep_current, sleep_current))
                /\ sleep_current' = sleep_current
           ELSE /\ calls' = Append(calls, CallRec("returned", slept, NoMsg, sleep_current,
                                                  NextSleep(sleep_current, increment)))
                /\ sleep_current' = NextSleep(sleep_current, increment)
    /\ UNCHANGED <<sleep, increment, tries, action, sleeper, scope, scope_as, scope_result>>

\* __enter__ (lines 124-125): returns self
GateEnter ==
    /\ UNCHANGED nestedVars
    /\ scope = "out"
    /\ scope' = "in"
    /\ scope_as' = "self"
    /\ UNCHANGED <<sleep, increment, tries, counter, sleep_current, action, sleeper, calls,
                   scope_result>>

\* Mutant: the gate swallows its own MaxWhileTries.
GateExitReturnSwallow(exc_type) == exc_type = "MaxWhileTries"

\* line 128: return False
GateExitReturn(exc_type) == FALSE

\* How the with statement ends after __exit__(exc_type, ...) returned ret:
\* the block's exception goes on to the caller unless ret is true.
ScopeOutcome(exc_type, ret) ==
    [given |-> exc_type, suppressed |-> ret,
     kind |-> IF exc_type # "None" /\ ~ret THEN "raised" ELSE "returned",
     err |-> IF exc_type # "None" /\ ~ret THEN exc_type ELSE "None"]

\* What the block of the with statement can end with: nothing, an error of
\* the loop body, or the error of the gate's last call.
BlockEndings ==
    {"None", "BodyError"} \cup
    (IF calls # << >> /\ calls[Len(calls)].result # "returned"
     THEN {calls[Len(calls)].result} ELSE {})

\* __exit__ (lines 127-128), called by the with statement when its block
\* ends with exc_type
GateExit ==
    /\ UNCHANGED nestedVars
    /\ scope = "in"
    /\ scope' = "out"
    /\ \E exc_type \in BlockEndings :
          scope_result' = ScopeOutcome(exc_type, GateExitReturn(exc_type))
    /\ UNCHANGED <<sleep, increment, tries, counter, sleep_current, action, sleeper, calls,
                   scope_as>>

(* ------------------------- specifications ----------------------------- *)
\* one use of nested(); the gate is constructed with its defaults and idle
Init ==
    /\ \E n \in 0..MaxManagers : NestedInit(n)
    /\ GateInit(6, 0, 10, "None", "time.sleep")

Next ==
    \/ FactoryRaises
    \/ EnterRaises
    \/ EnterOk
    \/ Yield
    \/ BlockOk
    \/ BlockRaises
    \/ ExitReturns
    \/ ExitRaises
    \/ Finish

Spec == Init /\ [][Next]_vars

\* one gate of any configuration; nested() is idle
GateSpecInit ==
    /\ NestedInit(0)
    /\ \E s \in (0 - MaxSleep)..MaxSleep, d \in (0 - MaxIncrement)..MaxIncrement,
          t \in (0 - 1)..MaxTries, a \in {"None", "act"}, sl \in {"time.sleep", "stub"} :
          GateInit(s, d, t, a, sl)

GateNext ==
    \/ Call
    \/ GateEnter
    \/ GateExit

GateSpec == GateSpecInit /\ [][GateNext]_vars

(* ------------------------- reading the trace -------------------------- *)
Pos == 1..Len(trace)

Done == pc = "done"

\* the resources on which op was called, in the order of the calls
Called(op) ==
    LET s == SelectSeq(trace, LAMBDA ev : ev.op = op)
    IN  [j \in 1..Len(s) |-> s[j].idx]

\* 1, 2, ..., n   and   n, n-1, ..., 1
Up(n) == [j \in 1..n |-> j]
Down(n) == [j \in 1..n |-> n + 1 - j]

\* nothing raised anywhere in the run
NoRaise == \A j \in Pos : trace[j].out # "raise"

\* the block ran and raised
BlockRaised == \E j \in Pos : trace[j].op = "block" /\ trace[j].out = "raise"

\* the enter of resource k raised
EnterRaised(k) ==
    \E j \in Pos : trace[j].op = "enter" /\ trace[j].idx = k /\ trace[j].out = "raise"

\* positions of the exit calls, and of those that raised
ExitPos == {j \in Pos : trace[j].op = "exit"}
ExitRaisePos == {j \in ExitPos : trace[j].out = "raise"}
LastExitRaise == CHOOSE j \in ExitRaisePos : \A m \in ExitRaisePos : m <= j

Raised(e) == [kind |-> "raised", err |-> e]

\* the calls of a run of n resources in which nothing fails
ExpectedCalls(n) ==
    [j \in 1..(3 * n + 2) |->
        IF j <= 2 * n THEN (IF j % 2 = 1 THEN <<"factory", (j + 1) \div 2>>
                                         ELSE <<"enter", j \div 2>>)
        ELSE IF j = 2 * n + 1 THEN <<"yield", n>>
        ELSE IF j = 2 * n + 2 THEN <<"block", 0>>
        ELSE <<"exit", 3 * n + 3 - j>>]

(* ------------------------- claims: nested() --------------------------- *)
\* C1: when no factory, enter, exit or block raises, the calls made are
\* factory 1, enter 1, ..., factory N, enter N, the yield of the N entered
\* values in that order, the block, exit N, ..., exit 1, each once, and the
\* with statement returns normally; for N = 0 the yield is of an empty list.
C1_EnterInOrderExitInReverse ==
    (Done /\ NoRaise) =>
        /\ [j \in Pos |-> <<trace[j].op, trace[j].idx>>] = ExpectedCalls(managers)
        /\ yield_vars = Up(managers)
        /\ result.kind = "returned"

C1_Witness == Done /\ NoRaise /\ managers = 2 /\ Called("exit") = <<2, 1>>

\* C2: when the enter of resource k raises, the exits called are those of
\* k-1, ..., 1 in that order, exit k is not called, no factory after k is
\* invoked, no resource after k is entered, and the block does not run.
C2_EnterFailureUnwinds ==
    \A k \in 1..managers :
        (Done /\ EnterRaised(k)) =>
            /\ Called("exit") = Down(k - 1)
            /\ Called("factory") = Up(k)
            /\ Called("enter") = Up(k)
            /\ \A j \in Pos : trace[j].op \notin {"yield", "block"}

\* C3: whatever the block and the exits do, at the end the exit of every
\* entered resource has been called exactly once, in reverse order of entry.
C3_UnconditionalTeardown ==
    Done => Called("exit") = Down(Len(yield_vars))

\* C4 as claimed: the block raises E and no exit call raises; then E is what
\* the caller gets.
C4_Original ==
    (Done /\ BlockRaised /\ ExitRaisePos = {}) => result = Raised(thrown)

\* C4: the block raises E and every exit call returns a false value; then E
\* is what the caller gets.
C4_BlockErrorPropagates ==
    (Done /\ BlockRaised /\ \A j \in ExitPos : trace[j].out = "ret") =>
        result = Raised(thrown)

C4_Witness ==
    /\ Done /\ BlockRaised /\ Len(yield_vars) = 2
    /\ \A j \in ExitPos : trace[j].out = "ret"
    /\ Called("exit") = <<2, 1>>

\* C5 as claimed: the block raises E and some exit raises; then the caller
\* gets the last exception an exit raised.
C5_Original ==
    (Done /\ BlockRaised /\ ExitRaisePos # {}) =>
        result = Raised(trace[LastExitRaise].err)

\* C5: the block raises E, some exit raises, and no exit called after the
\* last one that raised returns a true value; then the caller gets the last
\* exception an exit raised, which is not E.
C5_LastExitErrorPropagates ==
    (/\ Done /\ BlockRaised /\ ExitRaisePos # {}
     /\ \A j \in ExitPos : j > LastExitRaise => trace[j].out # "true") =>
        /\ result = Raised(trace[LastExitRaise].err)
        /\ result.err # thrown

C5_Witness ==
    /\ Done /\ BlockRaised /\ Cardinality(ExitRaisePos) = 2
    /\ \E j \in ExitPos : j > LastExitRaise /\ trace[j].out = "ret"

\* C6, for runs in which every exception raised derives from Exception: at
\* the end the with statement returns normally if no failure is recorded and
\* otherwise raises the recorded failure, also when the failure came from an
\* entry (an entry failure suppressed by an earlier resource's exit ends in a
\* normal return).
C6_FinalOutcome ==
    (Done /\ \A j \in Pos : trace[j].err.kind # "BaseException") =>
        IF exc = NoExc THEN result.kind = "returned" ELSE result = Raised(exc)

(* ------------------------- claims: safe_while ------------------------- *)
CallPos == 1..Len(calls)

\* the calls that raised MaxWhileTries, and those that returned
RaisedMax == {i \in CallPos : calls[i].result = "MaxWhileTries"}
Returned == {i \in CallPos : calls[i].result = "returned"}

\* s + (s + d) + ... + (s + (n-1)d)
ArithSum(s, d, n) == n * s + d * ((n * (n - 1)) \div 2)

\* C7: with tries = T >= 0, call i <= T calls the sleeper once, with
\* sleep + (i-1)*increment, and returns; call T+1 raises MaxWhileTries
\* reporting tries = T and total = the sum of the T sleep times.
C7_SleepScheduleAndReport ==
    tries >= 0 =>
        \A i \in CallPos :
            /\ i <= tries =>
                  /\ calls[i].result = "returned"
                  /\ calls[i].sleeper_args = <<sleep + (i - 1) * increment>>
            /\ i = tries + 1 =>
                  /\ calls[i].result = "MaxWhileTries"
                  /\ calls[i].msg.tries = tries
                  /\ calls[i].msg.total = ArithSum(sleep, increment, tries)

\* C8: after a call that raised MaxWhileTries every later call raises
\* MaxWhileTries without calling the sleeper, and a gate with a budget of
\* tries >= 0 (any gate that ever raised MaxWhileTries is one) lets at most
\* tries calls return.
C8_ExhaustedIsTerminal ==
    /\ \A i \in RaisedMax : \A j \in CallPos :
          j > i => /\ calls[j].result = "MaxWhileTries"
                   /\ calls[j].sleeper_args = << >>
    /\ (tries >= 0 \/ RaisedMax # {}) => Cardinality(Returned) <= tries

C8_Witness ==
    /\ tries >= 1
    /\ Len(calls) >= tries + 2
    /\ Cardinality(Returned) = tries
    /\ Cardinality(RaisedMax) >= 2

\* C9: a call that raises MaxWhileTries has not called the sleeper and has
\* left sleep_current as it was; with tries = 0 the first call already
\* raises MaxWhileTries and the sleeper is never called.
C9_RaisesBeforeSleeping ==
    /\ \A i \in RaisedMax :
          /\ calls[i].sleeper_args = << >>
          /\ calls[i].after = calls[i].before
    /\ (tries = 0 /\ Len(calls) >= 1) =>
          /\ calls[1].result = "MaxWhileTries"
          /\ \A i \in CallPos : calls[i].sleeper_args = << >>

C9_Witness ==
    /\ tries = 0
    /\ Len(calls) >= 1
    /\ increment # 0

\* C10: whatever the configuration, every call either returns or raises
\* MaxWhileTries.
C10_OnlyMaxTriesExceeded ==
    \A i \in CallPos : calls[i].result \in {"returned", "MaxWhileTries"}

\* C11 as claimed: no step of the gate lowers sleep_current, whatever the
\* increment.
C11_Original == [][sleep_current' >= sleep_current]_vars

\* C11: with an increment >= 0 no step of the gate lowers sleep_current.
C11_NonDecreasingIfIncrementNonNegative ==
    [][increment >= 0 => sleep_current' >= sleep_current]_vars

C11_Witness ==
    /\ increment > 0
    /\ Len(calls) >= 2
    /\ calls[1].result = "returned" /\ calls[2].result = "returned"
    /\ calls[2].after > calls[1].before

\* C12: counter starts at 0 and always equals the number of calls made,
\* raising ones included; every step either leaves it alone or is a call
\* that adds exactly 1, so __enter__ and __exit__ never change it.
C12_CounterCountsCalls ==
    /\ [](counter = Len(calls))
    /\ [][\/ (counter' = counter /\ calls' = calls)
          \/ (counter' = counter + 1 /\ Len(calls') = Len(calls) + 1)]_vars

C12_Witness ==
    /\ counter = tries + 2
    /\ Cardinality(RaisedMax) = 2
    /\ scope_result.kind # "none"
    /\ scope = "in"

\* C13: __enter__ hands the gate itself to the with statement; __exit__
\* never suppresses, so a block that ends with an error (MaxWhileTries
\* included) ends the with statement with that error; neither changes
\* counter or sleep_current.
C13_ScopeNeverSuppresses ==
    /\ [](/\ scope = "in" => scope_as = "self"
          /\ scope_result.kind # "none" =>
                /\ ~scope_result.suppressed
                /\ scope_result.given # "None" =>
                      /\ scope_result.kind = "raised"
                      /\ scope_result.err = scope_result.given)
    /\ [][scope' # scope => (counter' = counter /\ sleep_current' = sleep_current)]_vars

C13_Witness ==
    /\ scope_as = "self"
    /\ scope_result.given = "MaxWhileTries"
    /\ scope_result.kind = "raised"

\* C14: as long as the gate has not been called, counter is 0, sleep_current
\* is sleep, the sleeper has not been called, and a with statement on the
\* gate whose block raised nothing ends normally.
C14_NoCallNoEffect ==
    calls = << >> =>
        /\ counter = 0
        /\ sleep_current = sleep
        /\ scope_result.given = "None" => scope_result.kind \in {"none", "returned"}

C14_Witness ==
    /\ calls = << >>
    /\ scope_result.kind = "returned"
    /\ scope = "out"
    /\ increment # 0

\* the durations handed to the sleeper by the first n calls, added up
RECURSIVE SleptTotal(_)
SleptTotal(n) ==
    IF n <= 0 THEN 0
    ELSE SleptTotal(n - 1) +
         (IF calls[n].sleeper_args = << >> THEN 0 ELSE calls[n].sleeper_args[1])

\* the number of calls made to the sleeper
SleeperCalls == Cardinality({i \in CallPos : calls[i].sleeper_args # << >>})

Min(a, b) == IF a <= b THEN a ELSE b

\* C17: with tries >= 0, the total reported by every MaxWhileTries equals
\* the sum of the durations handed to the sleeper by the calls before it
\* (so it is the same on the first and on every later raising call).
C17_TotalIsTimeSlept ==
    tries >= 0 => \A i \in RaisedMax : calls[i].msg.total = SleptTotal(i - 1)

\* C18: with tries >= 0, in every state sleep_current is
\* sleep + increment * min(counter, tries) and the sleeper has been called
\* min(counter, tries) times.
C18_ClosedForm ==
    tries >= 0 =>
        /\ sleep_current = sleep + increment * Min(counter, tries)
        /\ SleeperCalls = Min(counter, tries)

(* ------------------------- claims: nested(), continued ---------------- *)
\* positions of the calls that raised
RaisePos == {j \in Pos : trace[j].out = "raise"}
LastRaise == CHOOSE j \in RaisePos : \A m \in RaisePos : m <= j
LogPos == {j \in Pos : trace[j].op = "log"}

\* C15: when something raised during the run and the with statement still
\* returns normally, an exit called after the last raise returned a true
\* value.
C15_NoSilentSwallow ==
    (Done /\ RaisePos # {} /\ result.kind = "returned") =>
        \E j \in ExitPos : j > LastRaise /\ trace[j].out = "true"

C15_Witness ==
    /\ Done /\ result.kind = "returned"
    /\ BlockRaised
    /\ ExitRaisePos # {}
    /\ \E j \in ExitPos : j > LastRaise /\ trace[j].out = "true"

\* The current failure after the first j calls, as the claim describes it:
\* the error raised by a factory, an enter or the block, replaced by the
\* error of an exit that raised, cleared by an exit that returned true.
RECURSIVE Current(_)
Current(j) ==
    IF j = 0 THEN NoExc
    ELSE IF trace[j].out = "raise" THEN trace[j].err
    ELSE IF trace[j].op = "exit" /\ trace[j].out = "true" THEN NoExc
    ELSE Current(j - 1)

\* C16: every exit call is given the current failure at the time of the
\* call.
C16_ExitsReceiveCurrentFailure ==
    \A j \in ExitPos : trace[j].arg = Current(j - 1)

\* C19, for runs in which every exception raised derives from Exception:
\* every exception raised by a factory, an enter, the block or an exit is
\* followed at once, before anything else is called, by one diagnostic
\* record of it, and there are no other records.
C19_OneLogPerException ==
    (\A j \in Pos : trace[j].err.kind # "BaseException") =>
        /\ \A j \in RaisePos :
              /\ j + 1 \in Pos
              /\ trace[j + 1].op = "log"
              /\ trace[j + 1].arg = trace[j].err
        /\ Cardinality(LogPos) = Cardinality(RaisePos)
====
